---------------------------- MODULE Spec2Model ----------------------------
(***************************************************************************)
(* AEM_Transport: the ATSimulation class of src/src/at_simulation.py.      *)
(*                                                                         *)
(* The module models the simulation object (coeff, xaxis, yaxis, result),  *)
(* its methods run, solve_system, conc_array, calc_c, calc_uv and          *)
(* calc_mathieu1/2, and the Python float arithmetic they rest on.          *)
(*                                                                         *)
(* Numbers.  A Python float is an IEEE 754 binary64.  A finite float is    *)
(* the record [sg, m, e] with value sg * m * 2^e, m a natural number of at *)
(* most Precision bits kept as a sequence of 15-bit limbs (TLC's integers  *)
(* have 32 bits), m odd (or zero), so that equal floats are equal records. *)
(* +, -, *, / and math.sqrt round to nearest, ties to even, as the         *)
(* hardware does.  Exponent overflow and underflow are not modelled: every *)
(* input is drawn from sets far from either.                               *)
(***************************************************************************)
EXTENDS Integers, Sequences, FiniteSets, TLC

(***************************************************************************)
(* Natural numbers of any size: little-endian sequences of limbs.          *)
(***************************************************************************)
LimbBits == 15
LimbBase == 2^15
Precision == 53

RECURSIVE BTrim(_)
BTrim(a) ==
    IF a = <<>> THEN a
    ELSE IF a[Len(a)] = 0 THEN BTrim(SubSeq(a, 1, Len(a) - 1)) ELSE a

RECURSIVE BFromNat(_)
BFromNat(n) ==
    IF n = 0 THEN <<>> ELSE <<n % LimbBase>> \o BFromNat(n \div LimbBase)

RECURSIVE BAddC(_, _, _)
BAddC(a, b, c) ==
    IF a = <<>> /\ b = <<>> THEN (IF c = 0 THEN <<>> ELSE <<c>>)
    ELSE LET x == IF a = <<>> THEN 0 ELSE Head(a)
             y == IF b = <<>> THEN 0 ELSE Head(b)
             s == x + y + c
         IN  <<s % LimbBase>> \o
             BAddC(IF a = <<>> THEN a ELSE Tail(a),
                   IF b = <<>> THEN b ELSE Tail(b), s \div LimbBase)

BAdd(a, b) == BAddC(a, b, 0)

\* a - b - c for a >= b + c, before trimming
RECURSIVE BSubC(_, _, _)
BSubC(a, b, c) ==
    IF a = <<>> THEN <<>>
    ELSE LET y == IF b = <<>> THEN 0 ELSE Head(b)
             s == Head(a) - y - c
         IN  <<IF s < 0 THEN s + LimbBase ELSE s>> \o
             BSubC(Tail(a), IF b = <<>> THEN b ELSE Tail(b),
                   IF s < 0 THEN 1 ELSE 0)

BSub(a, b) == BTrim(BSubC(a, b, 0))

\* -1, 0, 1 as a < b, a = b, a > b
RECURSIVE BCmpFrom(_, _, _)
BCmpFrom(a, b, i) ==
    IF i = 0 THEN 0
    ELSE IF a[i] < b[i] THEN -1
    ELSE IF a[i] > b[i] THEN 1
    ELSE BCmpFrom(a, b, i - 1)

BCmp(a, b) ==
    IF Len(a) < Len(b) THEN -1
    ELSE IF Len(a) > Len(b) THEN 1
    ELSE BCmpFrom(a, b, Len(a))

\* a * k + c for a limb k
RECURSIVE BMulSmall(_, _, _)
BMulSmall(a, k, c) ==
    IF a = <<>> THEN (IF c = 0 THEN <<>> ELSE <<c>>)
    ELSE LET s == Head(a) * k + c
         IN  <<s % LimbBase>> \o BMulSmall(Tail(a), k, s \div LimbBase)

BShlLimbs(a, w) ==
    IF a = <<>> THEN a ELSE [i \in 1..w |-> 0] \o a

RECURSIVE BMul(_, _)
BMul(a, b) ==
    IF a = <<>> \/ b = <<>> THEN <<>>
    ELSE BAdd(BTrim(BMulSmall(b, Head(a), 0)), BShlLimbs(BMul(Tail(a), b), 1))

\* floor(a / k) for a limb k >= 1, from the top limb down
RECURSIVE BDivSmallFrom(_, _, _, _)
BDivSmallFrom(a, k, i, r) ==
    IF i = 0 THEN <<>>
    ELSE LET s == r * LimbBase + a[i]
         IN  BDivSmallFrom(a, k, i - 1, s % k) \o <<s \div k>>

BDivSmall(a, k) == BTrim(BDivSmallFrom(a, k, Len(a), 0))

RECURSIVE NatBitLen(_)
NatBitLen(n) == IF n = 0 THEN 0 ELSE 1 + NatBitLen(n \div 2)

BitLen(a) ==
    IF a = <<>> THEN 0 ELSE LimbBits * (Len(a) - 1) + NatBitLen(a[Len(a)])

\* a * 2^k and floor(a / 2^k)
BShl(a, k) ==
    BShlLimbs(BTrim(BMulSmall(a, 2^(k % LimbBits), 0)), k \div LimbBits)

BShr(a, k) ==
    LET w == k \div LimbBits
    IN  IF w >= Len(a) THEN <<>>
        ELSE BDivSmall(SubSeq(a, w + 1, Len(a)), 2^(k % LimbBits))

\* bit i (from 0) of a
BBit(a, i) ==
    LET w == i \div LimbBits
    IN  IF w >= Len(a) THEN 0
        ELSE (a[w + 1] \div 2^(i % LimbBits)) % 2

\* whether a mod 2^k = 0
BLowZero(a, k) ==
    LET w == k \div LimbBits
    IN  /\ \A i \in 1..w : i > Len(a) \/ a[i] = 0
        /\ w >= Len(a) \/ a[w + 1] % 2^(k % LimbBits) = 0

RECURSIVE BTrailingZeros(_)
BTrailingZeros(a) ==
    IF a = <<>> THEN 0
    ELSE IF Head(a) = 0 THEN LimbBits + BTrailingZeros(Tail(a))
    ELSE IF Head(a) % 2 = 0 THEN 1 + BTrailingZeros(<<Head(a) \div 2>>)
    ELSE 0

\* One step of the long division by d > 0: q is the quotient so far and r2
\* the remainder so far with the next bit of the dividend brought down.
BDivModDigit(d, q, r2) ==
    IF BCmp(r2, d) >= 0 THEN <<BAddC(BAdd(q, q), <<>>, 1), BSub(r2, d)>>
    ELSE <<BAdd(q, q), r2>>

\* the step for bit i of n; st is <<quotient, remainder>> of the bits above
BDivModStep(n, d, i, st) ==
    BDivModDigit(d, st[1], BAddC(BAdd(st[2], st[2]), <<>>, BBit(n, i)))

\* The steps for bits hi, hi - 1, ..., hi - cnt + 1.  The range is halved
\* and the first half's result looked at before the second half starts, so
\* that the evaluation nests only log(cnt) deep.
RECURSIVE BDivModIter(_, _, _, _, _)
RECURSIVE BDivModRest(_, _, _, _, _)
BDivModIter(n, d, st, hi, cnt) ==
    IF cnt <= 0 THEN st
    ELSE IF cnt = 1 THEN BDivModStep(n, d, hi, st)
    ELSE BDivModRest(n, d, BDivModIter(n, d, st, hi, cnt \div 2),
                     hi - cnt \div 2, cnt - cnt \div 2)

BDivModRest(n, d, mid, hi, cnt) ==
    IF Len(mid) = 2 THEN BDivModIter(n, d, mid, hi, cnt) ELSE mid

\* <<floor(n / d), n mod d>> for d > 0
BDivMod(n, d) ==
    BDivModIter(n, d, <<<<>>, <<>>>>, BitLen(n) - 1, BitLen(n))

\* One step of the square root, digit by digit: s is the root so far, r4
\* the remainder so far with the next two bits brought down, t = 4s + 1.
BSqrtDigit(s, r4, t) ==
    IF BCmp(r4, t) >= 0 THEN <<BAddC(BAdd(s, s), <<>>, 1), BSub(r4, t)>>
    ELSE <<BAdd(s, s), r4>>

\* the step for the bits 2i+1, 2i of n; st is <<root, remainder>>
BSqrtStep(n, i, st) ==
    BSqrtDigit(st[1],
               BTrim(BAddC(BShl(st[2], 2), <<>>,
                           2 * BBit(n, 2 * i + 1) + BBit(n, 2 * i))),
               BAddC(BShl(st[1], 2), <<>>, 1))

RECURSIVE BSqrtIter(_, _, _, _)
RECURSIVE BSqrtRest(_, _, _, _)
BSqrtIter(n, st, hi, cnt) ==
    IF cnt <= 0 THEN st
    ELSE IF cnt = 1 THEN BSqrtStep(n, hi, st)
    ELSE BSqrtRest(n, BSqrtIter(n, st, hi, cnt \div 2),
                   hi - cnt \div 2, cnt - cnt \div 2)

BSqrtRest(n, mid, hi, cnt) ==
    IF Len(mid) = 2 THEN BSqrtIter(n, mid, hi, cnt) ELSE mid

\* <<floor(sqrt(n)), n - floor(sqrt(n))^2>>
BSqrtRem(n) ==
    BSqrtIter(n, <<<<>>, <<>>>>, (BitLen(n) + 1) \div 2 - 1,
              (BitLen(n) + 1) \div 2)

(***************************************************************************)
(* Floats.                                                                 *)
(***************************************************************************)
FZero == [sg |-> 0, m |-> <<>>, e |-> 0]

\* sg * (m / 2^tz) * 2^(e + tz)
FShift(sg, m, e, tz) == [sg |-> sg, m |-> BShr(m, tz), e |-> e + tz]

\* the float sg * m * 2^e for m of at most Precision bits
FNorm(sg, m, e) ==
    IF m = <<>> \/ sg = 0 THEN FZero
    ELSE FShift(sg, m, e, BTrailingZeros(m))

\* m with its k > 0 low bits rounded off: t is m without them
BRoundOff(m, k, t) ==
    IF /\ BBit(m, k - 1) = 1
       /\ (~BLowZero(m, k - 1) \/ BBit(t, 0) = 1)
    THEN BAddC(t, <<>>, 1)
    ELSE t

\* sg * m * 2^e with the k low bits of m rounded off
FRoundBits(sg, m, e, k) ==
    IF k <= 0 THEN FNorm(sg, m, e)
    ELSE FNorm(sg, BRoundOff(m, k, BShr(m, k)), e + k)

\* sg * m * 2^e rounded to Precision bits, nearest, ties to even
FRound(sg, m, e) == FRoundBits(sg, m, e, BitLen(m) - Precision)

FromInt(n) ==
    IF n = 0 THEN FZero
    ELSE FRound(IF n < 0 THEN -1 ELSE 1, BFromNat(IF n < 0 THEN -n ELSE n), 0)

\* f * 2^e
FScale(f, e) == IF f.sg = 0 THEN f ELSE [f EXCEPT !.e = @ + e]

\* n * 2^e
Dyadic(n, e) == FScale(FromInt(n), e)

FNeg(a) == [a EXCEPT !.sg = -@]

\* asg * am * 2^e + bsg * bm * 2^e for asg, bsg # 0, as <<sg, m, e>>;
\* c is the sign of am - bm
FSumAligned(asg, am, bsg, bm, e, c) ==
    IF asg = bsg THEN <<asg, BAdd(am, bm), e>>
    ELSE IF c = 0 THEN <<0, <<>>, 0>>
    ELSE IF c > 0 THEN <<asg, BSub(am, bm), e>>
    ELSE <<bsg, BSub(bm, am), e>>

FSumAt(asg, am, bsg, bm, e) ==
    FSumAligned(asg, am, bsg, bm, e, BCmp(am, bm))

\* the exact sum, as <<sg, m, e>> with m not normalised
FSumExact(a, b) ==
    IF a.sg = 0 THEN <<b.sg, b.m, b.e>>
    ELSE IF b.sg = 0 THEN <<a.sg, a.m, a.e>>
    ELSE IF a.e < b.e
    THEN FSumAt(a.sg, a.m, b.sg, BShl(b.m, b.e - a.e), a.e)
    ELSE FSumAt(a.sg, BShl(a.m, a.e - b.e), b.sg, b.m, b.e)

\* the float nearest to s = <<sg, m, e>>
FRoundOf(s) == FRound(s[1], s[2], s[3])

FAdd(a, b) == FRoundOf(FSumExact(a, b))

FSub(a, b) == FAdd(a, FNeg(b))

FMul(a, b) == FRound(a.sg * b.sg, BMul(a.m, b.m), a.e + b.e)

\* the sign of a - b
FCmp(a, b) == FSumExact(a, FNeg(b))[1]

FLt(a, b) == FCmp(a, b) < 0
FLe(a, b) == FCmp(a, b) <= 0
FGt(a, b) == FCmp(a, b) > 0
FGe(a, b) == FCmp(a, b) >= 0

\* sg * (2 * qr[1] + sticky) * 2^e, rounded: qr is <<quotient, remainder>>
\* or <<root, remainder>>, and the sticky bit says the remainder is not 0
FRoundSticky(sg, qr, e) ==
    FRound(sg, BAddC(BAdd(qr[1], qr[1]), <<>>, IF qr[2] = <<>> THEN 0 ELSE 1),
           e)

\* a / b with a.m shifted up by k bits first
FDivAt(a, b, k) ==
    FRoundSticky(a.sg * b.sg, BDivMod(BShl(a.m, k), b.m), a.e - b.e - k - 1)

\* a / b for b # 0: the quotient to Precision + 2 bits and a sticky bit
FDiv(a, b) ==
    IF a.sg = 0 THEN FZero
    ELSE IF Precision + 3 + BitLen(b.m) - BitLen(a.m) > 0
    THEN FDivAt(a, b, Precision + 3 + BitLen(b.m) - BitLen(a.m))
    ELSE FDivAt(a, b, 0)

\* sqrt(m1 * 2^e1) for e1 even, with m1 shifted up by 2j bits first
FSqrtAt(m1, e1, j) ==
    FRoundSticky(1, BSqrtRem(BShl(m1, 2 * j)), (e1 - 2 * j) \div 2 - 1)

\* sqrt(m1 * 2^e1) for e1 even
FSqrtEven(m1, e1) ==
    IF 2 * (Precision + 2) - BitLen(m1) > 0
    THEN FSqrtAt(m1, e1, (2 * (Precision + 2) - BitLen(m1) + 1) \div 2)
    ELSE FSqrtAt(m1, e1, 0)

\* sqrt(a) for a >= 0: the root to Precision + 2 bits and a sticky bit
FSqrt(a) ==
    IF a.sg = 0 THEN FZero
    ELSE IF a.e % 2 = 0 THEN FSqrtEven(a.m, a.e)
    ELSE FSqrtEven(BAdd(a.m, a.m), a.e - 1)

\* the natural number a below 2^30
BToNat(a) ==
    IF a = <<>> THEN 0
    ELSE IF Len(a) = 1 THEN a[1]
    ELSE a[1] + LimbBase * a[2]

\* floor(|a|)
FTrunc(a) == BToNat(IF a.e >= 0 THEN BShl(a.m, a.e) ELSE BShr(a.m, -a.e))

\* ceil(a) as an integer, for |a| below 2^30
FCeil(a) ==
    IF a.sg = 0 THEN 0
    ELSE IF a.sg < 0 THEN -FTrunc(a)
    ELSE IF a.e < 0 /\ ~BLowZero(a.m, -a.e) THEN FTrunc(a) + 1
    ELSE FTrunc(a)

F1 == FromInt(1)
F2 == FromInt(2)
F4 == FromInt(4)

(***************************************************************************)
(* Bounds of the model.                                                    *)
(***************************************************************************)
MaxElems == 2   \* elements of a configuration
MaxCp    == 2   \* config.num_cp
MaxTerms == 2   \* config.num_terms
MaxCalls == 2   \* public calls made on one simulation object
DomXMax  == 2   \* config.dom_xmax (dom_xmin is -1, dom_inc is 1)
DomYMax  == 2   \* config.dom_ymax (dom_ymin is 0)
UVRange  == 2   \* a direct calc_uv call: integer arguments -UVRange..UVRange
TinyExp  == 34  \* a direct calc_uv call: the arguments 2^-TinyExp, -2^-TinyExp

\* the 10 of np.zeros((10, 10)) and np.arange(0, 10, 1) in __init__
InitSize == 10

(***************************************************************************)
(* The state.  config is self.config (elements, discretisation, physical   *)
(* scalars, domain); coeff, xaxis, yaxis, result are the fields set by     *)
(* __init__; the rest is the position of the call in progress and what it  *)
(* has done so far.                                                        *)
(***************************************************************************)
VARIABLES
    config,       \* self.config; the elements carry outline, target, m_list
    coeff,        \* self.coeff: [dim |-> 2, vec |-> <<>>] is the
                  \* np.zeros((10, 10)) of __init__, [dim |-> 1, vec |-> v]
                  \* a solved vector v
    xaxis, yaxis, \* self.xaxis, self.yaxis
    result,       \* self.result: [nx, ny, at], at[<<j, i>>] is result[j, i]
    pc,           \* "idle", or the place of the call in progress: "solve"
                  \* (solve_system's loop and solve), "conc" (run, line 63),
                  \* "cells" (conc_array's loops)
    call,         \* the public call in progress or last made:
                  \* [method, args, status, ret], status "none", "running",
                  \* "returned" or the exception raised
    e1,           \* solve_system: the outer loop's index (from 0)
    perspective_vector, target_function_vector,   \* solve_system's locals
    gi, gj,       \* conc_array: the loops' indices i (y) and j (x)
    writes,       \* writes[<<j, i>>]: assignments made to result[j, i] by
                  \* the conc_array in progress or last made
    entry,        \* self.coeff as it was when that conc_array began
    mathieu_new,  \* the mf.Mathieu(q) constructed by the public call in
                  \* progress or last made: a set of [q, n], n the number
                  \* of constructions with that q
    uv_calls,     \* the calc_uv calls made by that public call
    reads,        \* a direct calc_c call: reads[k] is the set of indices
                  \* of self.coeff read for element k
    ncalls,       \* public calls made
    uv_memo,      \* calc_uv's outcomes on the offsets the calls ask for,
                  \* computed once (calc_uv is a function of its arguments
                  \* and of alpha_l, alpha_t, which nothing assigns)
    uv_in, uv_out \* a direct calc_uv call: its arguments and its outcome

vars == <<config, coeff, xaxis, yaxis, result, pc, call, e1,
          perspective_vector, target_function_vector, gi, gj, writes, entry,
          mathieu_new, uv_calls, reads, ncalls, uv_memo, uv_in, uv_out>>

(***************************************************************************)
(* calc_uv (lines 117-155).  An outcome is [raised, eta, psi]: raised is   *)
(* "none" or the exception, and then eta and psi mean nothing.             *)
(*                                                                         *)
(* math.asin and math.log are transcendental; their results are kept as    *)
(* terms: psi = [kind |-> "angle", kpi, sgn, s] stands for                 *)
(* kpi*pi + sgn*asin(s), and eta = [kind |-> "log", arg] for               *)
(* 0.5*log(arg).  The kinds "nan" and "inf" are the non-numbers a numpy    *)
(* operand lets through for d = 0.                                         *)
(*                                                                         *)
(* np: whether x, y or d is a numpy scalar (np.float64).  It decides one   *)
(* thing only: a float division by zero raises ZeroDivisionError, a numpy  *)
(* one warns and yields nan or inf.                                        *)
(***************************************************************************)
NoEta == [kind |-> "none", arg |-> FZero]
NoPsi == [kind |-> "none", kpi |-> 0, sgn |-> 0, s |-> FZero]

Raise(e) == [raised |-> e, eta |-> NoEta, psi |-> NoPsi]

Angle(kpi, sgn, s) == [kind |-> "angle", kpi |-> kpi, sgn |-> sgn, s |-> s]

\* line 131: np.clip(r, -1.0, 1.0)
Clip(r) ==
    IF FLt(r, FNeg(F1)) THEN FNeg(F1) ELSE IF FGt(r, F1) THEN F1 ELSE r

\* lines 134-143: the angle from psi_0 = asin(s) and the signs of Y, x
PsiFrom(s, Y, x) ==
    IF FGe(Y, FZero)
    THEN IF FGe(x, FZero) THEN Angle(0, 1, s) ELSE Angle(2, -1, s)
    ELSE IF FGe(x, FZero) THEN Angle(1, -1, s) ELSE Angle(1, 1, s)

\* lines 130-143: the angle from the angular root p and the signs of Y, x
PsiBranch(p, Y, x) == PsiFrom(Clip(FSqrt(p)), Y, x)

\* math.log(arg): a non-positive argument is a math domain error
LogOf(arg) ==
    IF arg.sg <= 0 THEN [kind |-> "error", arg |-> FZero]
    ELSE [kind |-> "log", arg |-> arg]

\* math.sqrt(rad) in line 154: a negative radicand is a math domain error
EtaFrom(q, rad) ==
    IF rad.sg < 0 THEN [kind |-> "error", arg |-> FZero]
    ELSE LogOf(FAdd(FSub(F1, FMul(F2, q)), FMul(F2, FSqrt(rad))))

\* line 154: what the logarithm is taken of, from the radical root q
EtaOf(q) == EtaFrom(q, FSub(FMul(q, q), q))

\* lines 127-128
RootsPQ(B, Y, f1, f2) ==
    <<B, Y, FDiv(FAdd(FNeg(B), f1), f2), FDiv(FSub(FNeg(B), f1), f2)>>

\* lines 125-126
RootsF(x2, d2, Y, B) ==
    RootsPQ(B, Y, FSqrt(FAdd(FMul(B, B), FMul(FMul(F4, d2), x2))),
            FMul(F2, d2))

\* line 124
RootsB(x2, d2, Y) == RootsF(x2, d2, Y, FSub(FAdd(x2, FMul(Y, Y)), d2))

\* lines 121-128: <<B, Y, p, q>>, for d # 0
Roots(alpha_l, alpha_t, x, y, d) ==
    RootsB(FMul(x, x), FMul(d, d), FMul(FSqrt(FDiv(alpha_l, alpha_t)), y))

\* lines 130-155 for the roots p, q: math.sqrt(p) raises for p < 0
UVOf(p, Y, x, eta) ==
    IF p.sg < 0 \/ eta.kind = "error" THEN Raise("ValueError")
    ELSE [raised |-> "none", eta |-> eta, psi |-> PsiBranch(p, Y, x)]

UVOfRoots(r, x) == UVOf(r[3], r[2], x, EtaOf(r[4]))

calc_uv_eval(alpha_l, alpha_t, x, y, d, np) ==
    IF alpha_t.sg = 0 THEN Raise("ZeroDivisionError")
    ELSE IF FDiv(alpha_l, alpha_t).sg < 0 THEN Raise("ValueError")
    ELSE IF d.sg = 0
    THEN \* line 127 divides by f2 = 0: B = x2 + Y^2 >= 0 and f1 = B, so p
         \* is 0/0 and q is -2B/0
         IF ~np THEN Raise("ZeroDivisionError")
         ELSE [raised |-> "none",
               eta |-> [kind |-> IF x.sg = 0 /\ y.sg = 0 THEN "nan" ELSE "inf",
                        arg |-> FZero],
               psi |-> [NoPsi EXCEPT !.kind = "nan"]]
    ELSE UVOfRoots(Roots(alpha_l, alpha_t, x, y, d), x)

\* self.calc_uv(x, y, d)
calc_uv(x, y, d, np) ==
    IF <<x, y, d>> \in DOMAIN uv_memo THEN uv_memo[<<x, y, d>>]
    ELSE calc_uv_eval(config.alpha_l, config.alpha_t, x, y, d, np)

(***************************************************************************)
(* The collaborators whose code is not in src/: at_element (the circle),   *)
(* mathieu_functions_OG (the provider of ce, se, Ke, Ko) and libm's exp.   *)
(***************************************************************************)
\* An element as ATSimulation reads it.  d and q are what calc_d_q leaves.
Circle(x, y, r, c) ==
    [x |-> FromInt(x), y |-> FromInt(y), r |-> FromInt(r),
     d |-> FromInt(r), q |-> Dyadic(r * r, -2), c_in |-> FromInt(c),
     outline |-> <<>>, target |-> <<>>, m_list |-> <<>>]

\* elem.calc_d_q(alpha_t, alpha_l, beta): focal parameter and shape parameter
calc_d_q(elem, alpha_t, alpha_l, beta) ==
    [elem EXCEPT !.d = elem.r,
                 !.q = FDiv(FMul(FMul(elem.r, elem.r), FMul(beta, beta)), F4)]

\* boundary point k (from 0) of a circle of radius r, relative to its centre
BoundaryPoint(r, k) ==
    CASE k % 4 = 0 -> <<r, FZero>>
      [] k % 4 = 1 -> <<FZero, r>>
      [] k % 4 = 2 -> <<FNeg(r), FZero>>
      [] k % 4 = 3 -> <<FZero, FNeg(r)>>

\* elem.set_outline(num_cp)
set_outline(elem, num_cp) ==
    [elem EXCEPT !.outline = [k \in 1..num_cp |-> BoundaryPoint(elem.r, k - 1)]]

\* elem.calc_target(ca, beta, gamma): one target value for each outline point
calc_target(elem, ca, beta, gamma) ==
    [elem EXCEPT !.target = [k \in 1..Len(elem.outline) |-> elem.c_in]]

\* dx^2 + dy^2
DistSq(dx, dy) == FAdd(FMul(dx, dx), FMul(dy, dy))

\* elem.is_inside(x, y): strictly inside the circle
is_inside(elem, x, y) ==
    FLt(DistSq(FSub(x, elem.x), FSub(y, elem.y)), FMul(elem.r, elem.r))

\* elem.c_inside()
c_inside(elem) == elem.c_in

\* The provider's functions are deterministic in (q, order, argument); what
\* they return is a small integer read off the arguments.
Tag(f) == IF f.sg = 0 THEN 0 ELSE (f.e + BitLen(f.m)) % 3

ce(q, order, psi) == FromInt(1 + order + 2 * psi.kpi + psi.sgn)

se(q, order, psi) == FromInt(order * psi.sgn + Tag(psi.s) + Tag(q))

Ke(q, order, eta) == FromInt(1 + order + Tag(eta.arg))

Ko(q, order, eta) == FromInt(2 - Tag(eta.arg) + Tag(q))

\* e^z for an integer z (glibc's values)
ExpInt(z) ==
    CASE z = -4 -> [sg |-> 1, m |-> <<20285, 23568, 16725, 37>>, e |-> -56]
      [] z = -3 -> [sg |-> 1, m |-> <<12463, 6557, 30403, 203>>, e |-> -57]
      [] z = -2 -> [sg |-> 1, m |-> <<24691, 20959, 21162, 34>>, e |-> -53]
      [] z = -1 -> [sg |-> 1, m |-> <<7655, 3467, 17835, 23>>, e |-> -51]
      [] z = 0 -> [sg |-> 1, m |-> <<1>>, e |-> 0]
      [] z = 1 -> [sg |-> 1, m |-> <<22377, 5672, 31786, 173>>, e |-> -51]
      [] z = 2 -> [sg |-> 1, m |-> <<28375, 14548, 7369, 118>>, e |-> -49]
      [] z = 3 -> [sg |-> 1, m |-> <<22659, 16239, 11211, 80>>, e |-> -47]
      [] z = 4 -> [sg |-> 1, m |-> <<26443, 2953, 9800, 27>>, e |-> -44]

\* math.exp on an integer-valued float
Exp(f) == ExpInt(FCeil(f))

(***************************************************************************)
(* calc_mathieu1, calc_mathieu2 (lines 157-171).  Each call runs           *)
(* mf.Mathieu(q) first (lines 159, 166): the callers count it.             *)
(***************************************************************************)
calc_mathieu1(order, psi, eta, q) == FMul(ce(q, order, psi), Ke(q, order, eta))

\* <<So * Yo, Se * Ye>>
calc_mathieu2(order, psi, eta, q) ==
    <<FMul(se(q, order, psi), Ko(q, order, eta)),
      FMul(ce(q, order, psi), Ke(q, order, eta))>>

\* the constructions counted in b with shape parameter q
CountOf(b, q) ==
    IF \E r \in b : r.q = q THEN (CHOOSE r \in b : r.q = q).n ELSE 0

\* the constructions of b and of c together
Merged(b, c) ==
    {[q |-> q, n |-> CountOf(b, q) + CountOf(c, q)] :
        q \in {r.q : r \in b \cup c}}

\* n more constructions of mf.Mathieu(q)
Constructed(b, q, n) ==
    IF n = 0 THEN b ELSE Merged(b, {[q |-> q, n |-> n]})

(***************************************************************************)
(* calc_c (lines 94-115).  An outcome is [raised, val, uv, new, reads]:    *)
(* the exception or "none", the value returned, the calc_uv calls made,    *)
(* the providers constructed, and the coefficient indices read for each    *)
(* element.                                                                *)
(***************************************************************************)
\* len(self.coeff)
coeff_len(cf) == IF cf.dim = 1 THEN Len(cf.vec) ELSE InitSize

\* self.coeff[k].  A row of the (10, 10) zeros stands as its common value 0:
\* a row times a scalar, and a sum of such, is a row of zeros again.
coeff_at(cf, k) == IF cf.dim = 1 THEN cf.vec[k + 1] ELSE FZero

\* the least of a set of numbers, or 0 for none
Least(S) == IF S = {} THEN 0 ELSE CHOOSE k \in S : \A j \in S : k <= j

\* the greatest of a set of numbers, or 0 for none
Greatest(S) == IF S = {} THEN 0 ELSE CHOOSE k \in S : \A j \in S : k >= j

\* a loop that goes on after a match would leave the last element the point
\* is inside of, or 0
LastInside(elements, x, y) ==
    Greatest({k \in 1..Len(elements) : is_inside(elements[k], x, y)})

\* lines 95-97: the first element (from 1) the point is inside of, or 0
FirstInside(elements, x, y) ==
    Least({k \in 1..Len(elements) : is_inside(elements[k], x, y)})

\* line 107 for the order with i2 = 2i, f what calc_mathieu2 returned; acc
\* is [raised, val, new, reads] with val the factor so far
OrderStep(cf, acc, i2, f) ==
    IF i2 >= coeff_len(cf)
    THEN [acc EXCEPT !.raised = "IndexError", !.new = @ + 1]
    ELSE [raised |-> "none",
          val    |-> FAdd(acc.val, FAdd(FMul(coeff_at(cf, i2 - 1), f[1]),
                                        FMul(coeff_at(cf, i2), f[2]))),
          new    |-> acc.new + 1,
          reads  |-> acc.reads \cup {i2 - 1, i2}]

\* lines 104-107, orders i..num_terms-1
RECURSIVE OrderLoop(_, _, _, _, _, _)
OrderLoop(c, cf, uv, q, i, acc) ==
    IF i >= c.num_terms \/ acc.raised # "none" THEN acc
    ELSE OrderLoop(c, cf, uv, q, i + 1,
             OrderStep(cf, acc, i * 2, calc_mathieu2(i, uv.psi, uv.eta, q)))

\* lines 103-107 for one element, uv what calc_uv returned: its factor
FactorOf(c, cf, elem, uv) ==
    IF uv.raised # "none"
    THEN [raised |-> uv.raised, val |-> FZero, new |-> 0, reads |-> {}]
    ELSE IF coeff_len(cf) = 0
    THEN [raised |-> "IndexError", val |-> FZero, new |-> 0, reads |-> {}]
    ELSE OrderLoop(c, cf, uv, elem.q, 1,
            [raised |-> "none",
             val    |-> FMul(coeff_at(cf, 0),
                             calc_mathieu1(0, uv.psi, uv.eta, elem.q)),
             new    |-> 1,
             reads  |-> {0}])

\* lines 102-107 for one element
ElemFactor(c, cf, elem, x, y, np) ==
    FactorOf(c, cf, elem,
             calc_uv(FSub(x, elem.x), FSub(y, elem.y), elem.d, np))

\* threshold = term, what line 108 would be without the +
Reassign(threshold, term) == term

\* line 108: threshold += term
Accumulate(threshold, term) == FAdd(threshold, term)

\* line 108 for the element of shape parameter q and factor f; acc is
\* [raised, val, uv, new, reads] with val the threshold so far
ElemStep(c, x, acc, q, f) ==
    [raised |-> f.raised,
     val    |-> IF f.raised = "none"
                THEN Accumulate(acc.val, FMul(f.val, Exp(FMul(c.beta, x))))
                ELSE acc.val,
     uv     |-> acc.uv + 1,
     new    |-> Constructed(acc.new, q, f.new),
     reads  |-> Append(acc.reads, f.reads)]

\* lines 101-108, elements k..
RECURSIVE ElemLoop(_, _, _, _, _, _, _)
ElemLoop(c, cf, x, y, np, k, acc) ==
    IF k > Len(c.elements) \/ acc.raised # "none" THEN acc
    ELSE ElemLoop(c, cf, x, y, np, k + 1,
             ElemStep(c, x, acc, c.elements[k].q,
                      ElemFactor(c, cf, c.elements[k], x, y, np)))

\* lines 110-115
PostProcess(c, threshold) ==
    IF FGt(threshold, c.ca) THEN FDiv(FSub(threshold, c.ca), c.gamma)
    ELSE FSub(threshold, c.ca)

\* lines 110-115 after the loop left t.  With the two-dimensional coeff of
\* __init__ and at least one element, threshold is an array of InitSize
\* numbers and line 112 raises ValueError (the truth value of an array is
\* ambiguous).
Finish(c, cf, t) ==
    IF t.raised # "none" THEN t
    ELSE IF cf.dim = 2 /\ Len(c.elements) > 0
    THEN [t EXCEPT !.raised = "ValueError"]
    ELSE [t EXCEPT !.val = PostProcess(c, t.val)]

\* calc_c when k is the first element the point is inside of, or 0
calc_c_from(c, cf, x, y, np, k) ==
    IF k # 0
    THEN [raised |-> "none", val |-> c_inside(c.elements[k]), uv |-> 0,
          new |-> {}, reads |-> <<>>]
    ELSE Finish(c, cf,
                ElemLoop(c, cf, x, y, np, 1,
                         [raised |-> "none", val |-> FZero, uv |-> 0,
                          new |-> {}, reads |-> <<>>]))

\* self.calc_c(x, y)
calc_c(c, cf, x, y, np) ==
    calc_c_from(c, cf, x, y, np, FirstInside(c.elements, x, y))

(***************************************************************************)
(* solve_system (lines 173-216).  An entry of m_list is [v, e2, cp, t]: v  *)
(* is the number appended; e2, cp and t record where it was computed (the  *)
(* influencing element, the collocation point and the place in the block   *)
(* order0_even, order1_odd, order1_even, ..., all from 0).  The code keeps *)
(* v only.                                                                 *)
(***************************************************************************)
\* line 200 for elements a, b (from 1) and collocation point i (from 1)
UVAt(c, a, b, i) ==
    LET elem1 == c.elements[a]
        elem2 == c.elements[b]
        pt    == elem1.outline[i]
        x     == IF a # b THEN FAdd(pt[1], FSub(elem1.x, elem2.x)) ELSE pt[1]
        y     == IF a # b THEN FAdd(pt[2], FSub(elem1.y, elem2.y)) ELSE pt[2]
    IN  calc_uv(x, y, elem2.d, FALSE)

\* lines 201-205 for uv what calc_uv returned: what is appended
BlockOf(c, b, i, uv, q2) ==
    [t \in 1..(2 * c.num_terms - 1) |->
        [v  |-> IF t = 1 THEN calc_mathieu1(0, uv.psi, uv.eta, q2)
                ELSE calc_mathieu2(t \div 2, uv.psi, uv.eta, q2)
                         [IF t % 2 = 0 THEN 1 ELSE 2],
         e2 |-> b - 1, cp |-> i - 1, t |-> t - 1]]

\* lines 200-205: what one collocation point appends
Block(c, a, b, i) == BlockOf(c, b, i, UVAt(c, a, b, i), c.elements[b].q)

\* line 191: the collocation points i.. of one influencing element
RECURSIVE CpLoop(_, _, _, _)
CpLoop(c, a, b, i) ==
    IF i > c.num_cp THEN <<>>
    ELSE Block(c, a, b, i) \o CpLoop(c, a, b, i + 1)

\* line 185: the influencing elements b..; the result is elem1.m_list
RECURSIVE E2Loop(_, _, _)
E2Loop(c, a, b) ==
    IF b > Len(c.elements) THEN <<>>
    ELSE CpLoop(c, a, b, 1) \o E2Loop(c, a, b + 1)

\* the exceptions calc_uv raises in element a's iteration
RaisedIn(c, a) ==
    {UVAt(c, a, b, i).raised : b \in 1..Len(c.elements), i \in 1..c.num_cp}
        \ {"none"}

\* line 208
ChunkSize(c) == (Len(c.elements) * c.num_terms - 1) * Len(c.elements)

\* lines 209-210 for s > 0: m_list[i:i+s] for i = 0, s, 2s, ...
Chunks(m, s) ==
    [r \in 1..((Len(m) + s - 1) \div s) |->
        SubSeq(m, (r - 1) * s + 1, IF r * s < Len(m) THEN r * s ELSE Len(m))]

\* the constructions of elements b..'s providers in one iteration of line 180
RECURSIVE ConstructedBy(_, _, _)
ConstructedBy(c, b, acc) ==
    IF b > Len(c.elements) THEN acc
    ELSE ConstructedBy(c, b + 1,
             Constructed(acc, c.elements[b].q, c.num_cp * c.num_terms))

\* whether np.array(rows) is a two-dimensional array
Rectangular(rows) ==
    /\ Len(rows) > 0
    /\ \A r \in 1..Len(rows) : Len(rows[r]) = Len(rows[1])

\* np.linalg.lstsq(a, b)[0] for a of n columns: a vector of n numbers.  The
\* solver is not modelled; any of these may be what it returns.
Solutions(n) ==
    {[k \in 1..n |-> FromInt(k)], [k \in 1..n |-> FromInt(-1)]}

(***************************************************************************)
(* conc_array (lines 82-92).                                               *)
(***************************************************************************)
\* n numbers from start, delta apart
Stepped(start, n, delta) ==
    [k \in 1..(IF n > 0 THEN n ELSE 0) |->
        FAdd(start, FMul(FromInt(k - 1), delta))]

\* np.arange(start, stop, step) for step > 0
arange(start, stop, step) ==
    Stepped(start, FCeil(FDiv(FSub(stop, start), step)),
            FSub(FAdd(start, step), start))

Cells(nx, ny) == (0..(nx - 1)) \X (0..(ny - 1))

\* np.zeros((nx, ny))
zeros(nx, ny) ==
    [nx |-> nx, ny |-> ny, at |-> [cell \in Cells(nx, ny) |-> FZero]]

\* the point of cell (j, i) were the first index y and the second x
CellPointSwapped(xs, ys, j, i) == <<ys[i + 1], xs[j + 1]>>

\* line 92: the point of cell (j, i)
CellPoint(xs, ys, j, i) == <<xs[j + 1], ys[i + 1]>>

(***************************************************************************)
(* The configurations and the arguments of the calls.                      *)
(***************************************************************************)
\* the circles configurations are made of
Catalogue == {Circle(0, 0, 1, 5), Circle(1, 0, 2, 7)}

ElementLists == UNION {[1..n -> Catalogue] : n \in 0..MaxElems}

Configs ==
    {[alpha_l |-> F4, alpha_t |-> F1, beta |-> F1, gamma |-> F2, ca |-> F1,
      num_cp |-> cp, num_terms |-> nt,
      dom_xmin |-> FromInt(-1), dom_ymin |-> FZero,
      dom_xmax |-> FromInt(DomXMax), dom_ymax |-> FromInt(DomYMax),
      dom_inc |-> F1, elements |-> es] :
        cp \in 1..MaxCp, nt \in 1..MaxTerms, es \in ElementLists}

\* a direct calc_c call
CPoints == {<<FZero, FZero>>, <<F1, F1>>, <<FromInt(-1), F1>>, <<F2, FZero>>}

\* a direct conc_array call: <<xmin, ymin, xmax, ymax, inc>>
ConcArgs ==
    {<<FromInt(-1), FZero, FromInt(DomXMax), F2, F1>>,
     <<FZero, FZero, F2, F1, F2>>,
     <<F1, FZero, F1, F2, F1>>}

\* the points a run's conc_array and the direct calls evaluate
Points ==
    {<<FromInt(x), FromInt(y)>> :
        x \in (-1)..(DomXMax - 1), y \in 0..(DomYMax - 1)} \cup CPoints

\* the offsets solve_system hands to calc_uv (line 200), and those calc_c
\* does (line 102) at a point outside the element
MemoOffsets ==
    {<<FAdd(BoundaryPoint(a.r, k)[1], FSub(a.x, b.x)),
       FAdd(BoundaryPoint(a.r, k)[2], FSub(a.y, b.y)), b.d>> :
        a \in Catalogue, b \in Catalogue, k \in 0..(MaxCp - 1)}
    \cup
    {<<FSub(pb[1][1], pb[2].x), FSub(pb[1][2], pb[2].y), pb[2].d>> :
        pb \in {t \in Points \X Catalogue :
                   ~is_inside(t[2], t[1][1], t[1][2])}}

UVTable(alpha_l, alpha_t) ==
    [t \in MemoOffsets |->
        calc_uv_eval(alpha_l, alpha_t, t[1], t[2], t[3], FALSE)]

\* a direct calc_uv call
UVCoords ==
    {FromInt(n) : n \in (-UVRange)..UVRange}
        \cup {Dyadic(1, -TinyExp), Dyadic(-1, -TinyExp)}

UVInputs ==
    [x : UVCoords, y : UVCoords, d : {FromInt(n) : n \in 0..UVRange},
     np : BOOLEAN]

NoCall == [method |-> "none", args |-> <<>>, status |-> "none", ret |-> FZero]

(***************************************************************************)
(* The operations.                                                         *)
(***************************************************************************)
\* __init__ (lines 26-31), for every configuration
Init ==
    /\ uv_memo = UVTable(F4, F1)
    /\ config \in Configs
    /\ coeff = [dim |-> 2, vec |-> <<>>]
    /\ xaxis = arange(FZero, FromInt(InitSize), F1)
    /\ yaxis = arange(FZero, FromInt(InitSize), F1)
    /\ result = zeros(InitSize, InitSize)
    /\ pc = "idle"
    /\ call = NoCall
    /\ e1 = 0
    /\ perspective_vector = <<>>
    /\ target_function_vector = <<>>
    /\ gi = 0
    /\ gj = 0
    /\ writes = [cell \in Cells(InitSize, InitSize) |-> 0]
    /\ entry = coeff
    /\ mathieu_new = {}
    /\ uv_calls = 0
    /\ reads = <<>>
    /\ ncalls = 0
    /\ uv_in = [x |-> FZero, y |-> FZero, d |-> FZero, np |-> FALSE]
    /\ uv_out = Raise("uncalled")

\* the call in progress raises e
Fail(e) ==
    /\ pc' = "idle"
    /\ call' = [call EXCEPT !.status = e]

\* run() without the test of line 34
ElementsUnchecked(c) == FALSE

\* line 34
NoElements(c) == Len(c.elements) = 0

\* lines 46-53, for a circle
Setup(elem, c) ==
    calc_target(set_outline(calc_d_q(elem, c.alpha_t, c.alpha_l, c.beta),
                            c.num_cp),
                c.ca, c.beta, c.gamma)

\* run(), lines 33-55, up to solve_system's first iteration
Run ==
    /\ pc = "idle"
    /\ ncalls < MaxCalls
    /\ ncalls' = ncalls + 1
    /\ uv_calls' = 0
    /\ mathieu_new' = {}
    /\ reads' = <<>>
    /\ IF NoElements(config)
       THEN /\ call' = [method |-> "run", args |-> <<>>,
                        status |-> "ValueError", ret |-> FZero]
            /\ UNCHANGED <<config, pc, e1, perspective_vector,
                           target_function_vector>>
       ELSE /\ call' = [method |-> "run", args |-> <<>>,
                        status |-> "running", ret |-> FZero]
            /\ config' = [config EXCEPT !.elements =
                             [k \in DOMAIN @ |-> Setup(@[k], config)]]
            /\ pc' = "solve"
            /\ e1' = 0
            /\ perspective_vector' = <<>>
            /\ target_function_vector' = <<>>
    /\ UNCHANGED <<coeff, xaxis, yaxis, result, gi, gj, writes, entry,
                   uv_memo, uv_in, uv_out>>

\* one iteration of solve_system's outer loop, lines 180-212
SolveElem ==
    /\ pc = "solve"
    /\ e1 < Len(config.elements)
    /\ \E bad \in {RaisedIn(config, e1 + 1)},
          m \in {E2Loop(config, e1 + 1, 1)},
          s \in {ChunkSize(config)} :
          IF bad # {}
          THEN /\ Fail(CHOOSE e \in bad : TRUE)
               /\ UNCHANGED <<config, e1, perspective_vector,
                              target_function_vector>>
          ELSE /\ config' = [config EXCEPT !.elements[e1 + 1].m_list = m]
               /\ IF s = 0
                  THEN \* range() arg 3 must not be zero
                       /\ Fail("ValueError")
                       /\ UNCHANGED <<e1, perspective_vector,
                                      target_function_vector>>
                  ELSE /\ perspective_vector' =
                              perspective_vector \o Chunks(m, s)
                       /\ target_function_vector' =
                              target_function_vector
                                  \o config.elements[e1 + 1].target
                       /\ e1' = e1 + 1
                       /\ UNCHANGED <<pc, call>>
    /\ uv_calls' = uv_calls + Len(config.elements) * config.num_cp
    /\ mathieu_new' = ConstructedBy(config, 1, mathieu_new)
    /\ UNCHANGED <<coeff, xaxis, yaxis, result, gi, gj, writes, entry, reads,
                   ncalls, uv_memo, uv_in, uv_out>>

\* lines 215-216, and the return to run
SolveLstsq ==
    /\ pc = "solve"
    /\ e1 = Len(config.elements)
    /\ IF ~Rectangular(perspective_vector)
       THEN \* no rows: not a matrix; rows of unequal length: np.array raises
            /\ Fail(IF Len(perspective_vector) = 0 THEN "LinAlgError"
                    ELSE "ValueError")
            /\ UNCHANGED coeff
       ELSE IF Len(perspective_vector) # Len(target_function_vector)
       THEN /\ Fail("LinAlgError")
            /\ UNCHANGED coeff
       ELSE /\ \E v \in Solutions(Len(perspective_vector[1])) :
                   coeff' = [dim |-> 1, vec |-> v]
            /\ pc' = "conc"
            /\ UNCHANGED call
    /\ UNCHANGED <<config, xaxis, yaxis, result, e1, perspective_vector,
                   target_function_vector, gi, gj, writes, entry,
                   mathieu_new, uv_calls, reads, ncalls, uv_memo, uv_in,
                   uv_out>>

\* lines 83-88
ConcBegin(xmin, ymin, xmax, ymax, inc) ==
    \E xs \in {arange(xmin, xmax, inc)}, ys \in {arange(ymin, ymax, inc)} :
        /\ xaxis' = xs
        /\ yaxis' = ys
        /\ result' = zeros(Len(xs), Len(ys))
        /\ writes' = [cell \in Cells(Len(xs), Len(ys)) |-> 0]
        /\ gi' = 0
        /\ gj' = 0
        /\ entry' = coeff
        /\ pc' = "cells"

\* run(), lines 57-63: conc_array over the configured domain
RunConcArray ==
    /\ pc = "conc"
    /\ ConcBegin(config.dom_xmin, config.dom_ymin, config.dom_xmax,
                 config.dom_ymax, config.dom_inc)
    /\ UNCHANGED <<config, coeff, call, e1, perspective_vector,
                   target_function_vector, mathieu_new, uv_calls, reads,
                   ncalls, uv_memo, uv_in, uv_out>>

\* conc_array(xmin, ymin, xmax, ymax, inc) called on the object
CallConcArray ==
    /\ pc = "idle"
    /\ ncalls < MaxCalls
    /\ \E a \in ConcArgs :
          /\ call' = [method |-> "conc_array", args |-> a,
                      status |-> "running", ret |-> FZero]
          /\ ConcBegin(a[1], a[2], a[3], a[4], a[5])
    /\ ncalls' = ncalls + 1
    /\ uv_calls' = 0
    /\ mathieu_new' = {}
    /\ reads' = <<>>
    /\ UNCHANGED <<config, coeff, e1, perspective_vector,
                   target_function_vector, uv_memo, uv_in, uv_out>>

\* line 92 for the cell (gj, gi), and the loops' step
ConcArrayCell ==
    /\ pc = "cells"
    /\ gi < result.ny
    /\ result.nx > 0
    /\ \E p \in {CellPoint(xaxis, yaxis, gj, gi)} :
       \E r \in {calc_c(config, coeff, p[1], p[2], TRUE)} :
          /\ uv_calls' = uv_calls + r.uv
          /\ mathieu_new' = Merged(mathieu_new, r.new)
          /\ IF r.raised # "none"
             THEN /\ Fail(r.raised)
                  /\ UNCHANGED <<result, writes, gi, gj>>
             ELSE /\ result' = [result EXCEPT !.at[<<gj, gi>>] = r.val]
                  /\ writes' = [writes EXCEPT ![<<gj, gi>>] = @ + 1]
                  /\ gj' = IF gj + 1 < result.nx THEN gj + 1 ELSE 0
                  /\ gi' = IF gj + 1 < result.nx THEN gi ELSE gi + 1
                  /\ UNCHANGED <<pc, call>>
    /\ UNCHANGED <<config, coeff, xaxis, yaxis, e1, perspective_vector,
                   target_function_vector, entry, reads, ncalls, uv_memo,
                   uv_in, uv_out>>

\* the loops of lines 90-91 are over: conc_array returns, and with it run
\* (lines 65-80 time and plot)
ConcArrayReturn ==
    /\ pc = "cells"
    /\ gi >= result.ny \/ result.nx = 0
    /\ pc' = "idle"
    /\ call' = [call EXCEPT !.status = "returned"]
    /\ UNCHANGED <<config, coeff, xaxis, yaxis, result, e1,
                   perspective_vector, target_function_vector, gi, gj,
                   writes, entry, mathieu_new, uv_calls, reads, ncalls,
                   uv_memo, uv_in, uv_out>>

\* calc_c(x, y) called on the object
CallCalcC ==
    /\ pc = "idle"
    /\ ncalls < MaxCalls
    /\ \E p \in CPoints :
       \E r \in {calc_c(config, coeff, p[1], p[2], FALSE)} :
          /\ call' = [method |-> "calc_c", args |-> p,
                      status |-> IF r.raised = "none" THEN "returned"
                                 ELSE r.raised,
                      ret |-> r.val]
          /\ uv_calls' = r.uv
          /\ mathieu_new' = r.new
          /\ reads' = r.reads
    /\ ncalls' = ncalls + 1
    /\ UNCHANGED <<config, coeff, xaxis, yaxis, result, pc, e1,
                   perspective_vector, target_function_vector, gi, gj,
                   writes, entry, uv_memo, uv_in, uv_out>>

Next ==
    \/ Run
    \/ SolveElem
    \/ SolveLstsq
    \/ RunConcArray
    \/ CallConcArray
    \/ ConcArrayCell
    \/ ConcArrayReturn
    \/ CallCalcC

Spec == Init /\ [][Next]_vars

(***************************************************************************)
(* calc_uv called on its own: the arguments are drawn at the start, the    *)
(* one step is the call.                                                   *)
(***************************************************************************)
InitUV ==
    /\ uv_memo = <<>>
    /\ config \in {c \in Configs : c.elements = <<>> /\ c.num_cp = 1
                                   /\ c.num_terms = 1}
    /\ coeff = [dim |-> 2, vec |-> <<>>]
    /\ xaxis = arange(FZero, FromInt(InitSize), F1)
    /\ yaxis = arange(FZero, FromInt(InitSize), F1)
    /\ result = zeros(InitSize, InitSize)
    /\ pc = "idle"
    /\ call = NoCall
    /\ e1 = 0
    /\ perspective_vector = <<>>
    /\ target_function_vector = <<>>
    /\ gi = 0
    /\ gj = 0
    /\ writes = [cell \in Cells(InitSize, InitSize) |-> 0]
    /\ entry = coeff
    /\ mathieu_new = {}
    /\ uv_calls = 0
    /\ reads = <<>>
    /\ ncalls = 0
    /\ uv_in \in UVInputs
    /\ uv_out = Raise("uncalled")

CallCalcUV ==
    /\ uv_out.raised = "uncalled"
    /\ uv_out' = calc_uv(uv_in.x, uv_in.y, uv_in.d, uv_in.np)
    /\ UNCHANGED <<config, coeff, xaxis, yaxis, result, pc, call, e1,
                   perspective_vector, target_function_vector, gi, gj,
                   writes, entry, mathieu_new, uv_calls, reads, ncalls,
                   uv_memo, uv_in>>

NextUV == CallCalcUV

SpecUV == InitUV /\ [][NextUV]_vars

(***************************************************************************)
(* The properties.                                                         *)
(***************************************************************************)
\* the elements (from 1) the point (x, y) is inside of
InsideOf(x, y) ==
    {k \in 1..Len(config.elements) : is_inside(config.elements[k], x, y)}

\* a direct calc_c call has been made at a point inside some element
CalcCInside ==
    /\ call.method = "calc_c"
    /\ InsideOf(call.args[1], call.args[2]) # {}

\* a direct calc_c call has returned for a point outside every element
CalcCOutside ==
    /\ call.method = "calc_c"
    /\ call.status = "returned"
    /\ InsideOf(call.args[1], call.args[2]) = {}

\* C1: calc_c at a point inside at least one element returns c_inside() of
\* the first such element in list order, whatever self.coeff holds, and
\* calls neither calc_uv nor calc_mathieu1 nor calc_mathieu2.
C1_InsideReturnsFirst ==
    CalcCInside =>
        /\ call.status = "returned"
        /\ \E k \in InsideOf(call.args[1], call.args[2]) :
              /\ \A j \in 1..(k - 1) :
                    j \notin InsideOf(call.args[1], call.args[2])
              /\ call.ret = c_inside(config.elements[k])
        /\ uv_calls = 0
        /\ mathieu_new = {}

\* C1's case: a point inside two elements of different interior value,
\* evaluated with a solved coefficient vector
C1_Witness ==
    /\ CalcCInside
    /\ coeff.dim = 1
    /\ \E j, k \in InsideOf(call.args[1], call.args[2]) :
          c_inside(config.elements[j]) # c_inside(config.elements[k])

\* C2: run() with an empty element list raises ValueError at once: no
\* element is set up, solve_system and conc_array do not start, and
\* self.coeff, self.xaxis, self.yaxis and self.result keep their values.
C2_EmptyRunRejected ==
    [][(pc = "idle" /\ ncalls' = ncalls + 1 /\ call'.method = "run"
            /\ Len(config.elements) = 0)
        => /\ call'.status = "ValueError"
           /\ pc' = "idle"
           /\ uv_calls' = 0
           /\ mathieu_new' = {}
           /\ UNCHANGED <<config, coeff, xaxis, yaxis, result, e1,
                          perspective_vector, target_function_vector, gi,
                          gj, writes, entry>>]_vars

\* C2's case: run() has failed on an empty element list after a conc_array
\* had replaced the result of __init__
C2_Witness ==
    /\ call.method = "run"
    /\ call.status = "ValueError"
    /\ Len(config.elements) = 0
    /\ result.nx # InitSize

\* C3: with at least one element, one collocation point and one term, every
\* step of solve_system's assembly goes on to the next, the chunk size is
\* num_elements*(2*num_terms-1) and not zero, and the rows assembled so far
\* are num_cp for each element done, as many as the target values, each of
\* length num_elements*(2*num_terms-1).
C3_RowsAndChunk ==
    [][(pc = "solve" /\ e1 < Len(config.elements))
        => /\ pc' = "solve"
           /\ ChunkSize(config) # 0
           /\ ChunkSize(config) =
                 Len(config.elements) * (2 * config.num_terms - 1)
           /\ Len(perspective_vector') = e1' * config.num_cp
           /\ Len(target_function_vector') = Len(perspective_vector')
           /\ \A r \in 1..Len(perspective_vector') :
                 Len(perspective_vector'[r]) =
                     Len(config.elements) * (2 * config.num_terms - 1)]_vars

\* C4: in every assembled row, column k*(2*num_terms-1)+c holds term c of
\* influencing element k's block, and all entries of the row were computed
\* at one collocation point.
C4_RowLayout ==
    \A r \in 1..Len(perspective_vector) :
        \A k \in 1..Len(perspective_vector[r]) :
            /\ perspective_vector[r][k].e2 =
                  (k - 1) \div (2 * config.num_terms - 1)
            /\ perspective_vector[r][k].t =
                  (k - 1) % (2 * config.num_terms - 1)
            /\ perspective_vector[r][k].cp = perspective_vector[r][1].cp

\* C5: for a point outside every element, calc_c reads for element k (from
\* 0) the coefficients k*(2*num_terms-1) .. k*(2*num_terms-1)+2*num_terms-2
\* and no others, so that no index is read for two elements.
C5_SliceReads ==
    CalcCOutside =>
        /\ \A k \in 1..Len(reads) :
              reads[k] =
                  {(k - 1) * (2 * config.num_terms - 1) + c :
                      c \in 0..(2 * config.num_terms - 2)}
        /\ \A k, l \in 1..Len(reads) :
              k # l => reads[k] \cap reads[l] = {}

\* a direct calc_uv call has been made
UVCalled == uv_out.raised # "uncalled"

\* C6: calc_uv returns no (eta, psi) for d = 0, nor for x = 0 and y = 0
\* with d > 0: it raises.
C6_DegenerateRejected ==
    (/\ UVCalled
     /\ \/ uv_in.d = FZero
        \/ uv_in.x = FZero /\ uv_in.y = FZero /\ FGt(uv_in.d, FZero))
        => uv_out.raised # "none"

\* whether the float k*pi + sgn*asin(s) is in [0, 2*pi).  asin(s) is in
\* [0, pi/2] for s in [0, 1]; the float 2*pi - asin(s) is the float 2*pi
\* exactly when s <= 2^-51 (half the spacing of the floats below 2*pi,
\* the tie rounding to 2*pi).
InTurn(psi) ==
    /\ psi.kind = "angle"
    /\ ~(psi.kpi = 2 /\ psi.sgn = -1 /\ FLe(psi.s, Dyadic(1, -51)))

\* the four-branch rule on the signs of Y (those of y, the factor
\* sqrt(alpha_l/alpha_t) being positive) and x: <<multiple of pi, sign>>
BranchRule(x, y) ==
    IF FGe(y, FZero)
    THEN IF FGe(x, FZero) THEN <<0, 1>> ELSE <<2, -1>>
    ELSE IF FGe(x, FZero) THEN <<1, -1>> ELSE <<1, 1>>

\* C7: for d > 0 and (x, y) # (0, 0), calc_uv returns without error a
\* finite eta and a psi in [0, 2*pi) that is the four-branch rule's
\* combination of pi and the principal arcsine of the clipped root.
C7_PsiInRange ==
    (/\ UVCalled
     /\ FGt(uv_in.d, FZero)
     /\ ~(uv_in.x = FZero /\ uv_in.y = FZero))
        => /\ uv_out.raised = "none"
           /\ uv_out.eta.kind = "log"
           /\ <<uv_out.psi.kpi, uv_out.psi.sgn>> = BranchRule(uv_in.x, uv_in.y)
           /\ InTurn(uv_out.psi)

\* C8: during a run, mf.Mathieu(q) is constructed at most once for each q.
C8_ProviderOnce ==
    call.method = "run" => \A r \in mathieu_new : r.n <= 1

\* the arguments of the conc_array that has returned
ConcArrayArgs ==
    IF call.method = "run"
    THEN <<config.dom_xmin, config.dom_ymin, config.dom_xmax,
           config.dom_ymax, config.dom_inc>>
    ELSE call.args

\* the points start, start + inc, ... below stop: how many
HalfOpenCount(start, stop, inc) ==
    Cardinality({k \in 0..(DomXMax + DomYMax + 2) :
                    FLt(FAdd(start, FMul(FromInt(k), inc)), stop)})

\* a conc_array, called directly or by run, has returned
ConcArrayDone ==
    /\ call.method \in {"run", "conc_array"}
    /\ call.status = "returned"

RECURSIVE BasisSum(_, _, _)
BasisSum(uv, q, i) ==
    IF i = 0
    THEN FMul(coeff.vec[1], calc_mathieu1(0, uv.psi, uv.eta, q))
    ELSE FAdd(BasisSum(uv, q, i - 1),
              FAdd(FMul(coeff.vec[2 * i],
                        calc_mathieu2(i, uv.psi, uv.eta, q)[1]),
                   FMul(coeff.vec[2 * i + 1],
                        calc_mathieu2(i, uv.psi, uv.eta, q)[2])))

\* element k's term of the total at (x, y)
TermOf(k, x, y) ==
    FMul(BasisSum(calc_uv(FSub(x, config.elements[k].x),
                          FSub(y, config.elements[k].y),
                          config.elements[k].d, FALSE),
                  config.elements[k].q, config.num_terms - 1),
         Exp(FMul(config.beta, x)))

\* the total over elements 1..k at (x, y)
RECURSIVE Total(_, _, _)
Total(k, x, y) ==
    IF k = 0 THEN FZero ELSE FAdd(Total(k - 1, x, y), TermOf(k, x, y))

\* (T - ca)/gamma for T > ca, T - ca otherwise
Scaled(T) ==
    IF FGt(T, config.ca) THEN FDiv(FSub(T, config.ca), config.gamma)
    ELSE FSub(T, config.ca)

\* C10: for a point outside every element, calc_c returns (T - ca)/gamma
\* when T > ca and T - ca otherwise, T being the sum over all elements of
\* the element's basis-weighted sum over orders 0..num_terms-1 times
\* exp(beta*x).
C10_TotalOverAllElements ==
    CalcCOutside =>
        call.ret = Scaled(Total(Len(config.elements), call.args[1],
                                call.args[2]))

\* C10's case: two elements, the first one's term not zero, and a total
\* above ca
C10_Witness ==
    /\ CalcCOutside
    /\ Len(config.elements) = 2
    /\ TermOf(1, call.args[1], call.args[2]) # FZero
    /\ FGt(Total(2, call.args[1], call.args[2]), config.ca)

====
